---------------------------- MODULE Spec2Model ----------------------------
(***************************************************************************)
(* The Polygon crypto historical price fetcher: query normalisation        *)
(* (transform_query and the pydantic validators of the query model), the   *)
(* paginated per-symbol extraction (aextract_data and its callback) and    *)
(* the record transformation (transform_data).                             *)
(*                                                                         *)
(* Strings the code takes apart (symbol, interval) are sequences of        *)
(* one-character strings.  An optional value is a sequence of length <= 1: *)
(* None is <<>> and Some(v) is <<v>>.  given is what the caller passed,      *)
(* kept beside params, the dict transform_query updates in place.          *)
(***************************************************************************)
EXTENDS Integers, Sequences, FiniteSets, TLC

VARIABLES given, params, clock, credentials, feed, vendor, query, pc, err,
          tasks, order, warnings, data, output

vars == <<given, params, clock, credentials, feed, vendor, query, pc, err,
          tasks, order, warnings, data, output>>

(***************************************************************************)
(* Bounds of the model.                                                    *)
(***************************************************************************)
MaxTokenLen == 3
MaxPages == 2
MaxRows == 2
MaxSymbolLen == 3
MaxRequests == 4

(***************************************************************************)
(* Program constants.                                                      *)
(***************************************************************************)
DefaultLimit == 49999
MsPerSecond == 1000

None == <<>>
Some(v) == <<v>>
IsSome(o) == o # <<>>
Get(o) == o[1]

(***************************************************************************)
(* Python string operations used by the code.                              *)
(***************************************************************************)
Digit == {"0", "1", "5", "7"}

DigitValue(c) ==
    CASE c = "0" -> 0 [] c = "1" -> 1 [] c = "5" -> 5 [] c = "7" -> 7

\* str.upper(), character by character
UpperChar(c) ==
    CASE c = "b" -> "B"
      [] c = "e" -> "E"
      [] c = "x" -> "X"
      [] OTHER -> c

upper(s) == [i \in 1..Len(s) |-> UpperChar(s[i])]

\* s starts with the non-empty sequence old
StartsWith(s, old) ==
    /\ Len(old) <= Len(s)
    /\ SubSeq(s, 1, Len(old)) = old

\* str.replace(old, new, 1): the leftmost occurrence only
RECURSIVE replace_first(_, _, _)
replace_first(s, old, new) ==
    IF s = <<>> THEN <<>>
    ELSE IF StartsWith(s, old)
         THEN new \o SubSeq(s, Len(old) + 1, Len(s))
         ELSE <<Head(s)>> \o replace_first(Tail(s), old, new)

\* str.replace(old, new) for a non-empty old: leftmost, non-overlapping
RECURSIVE replace(_, _, _)
replace(s, old, new) ==
    IF s = <<>> THEN <<>>
    ELSE IF StartsWith(s, old)
         THEN new \o replace(SubSeq(s, Len(old) + 1, Len(s)), old, new)
         ELSE <<Head(s)>> \o replace(Tail(s), old, new)

\* str.split(sep) for a one-character sep: always at least one piece
RECURSIVE split(_, _)
split(s, sep) ==
    IF \A i \in 1..Len(s) : s[i] # sep THEN <<s>>
    ELSE LET k == CHOOSE i \in 1..Len(s) :
                      s[i] = sep /\ \A j \in 1..(i - 1) : s[j] # sep
         IN <<SubSeq(s, 1, k - 1)>> \o split(SubSeq(s, k + 1, Len(s)), sep)

\* "c in s"
contains(s, c) == \E i \in 1..Len(s) : s[i] = c

\* value of a non-empty sequence of decimal digits
RECURSIVE DigitsValue(_)
DigitsValue(ds) ==
    IF ds = <<>> THEN 0
    ELSE 10 * DigitsValue(SubSeq(ds, 1, Len(ds) - 1)) + DigitValue(ds[Len(ds)])

\* int(s): an optional sign, then at least one digit and nothing else;
\* anything else raises ValueError
int(s) ==
    LET signed == s # <<>> /\ s[1] \in {"-", "+"}
        body   == IF signed THEN Tail(s) ELSE s
    IN IF body # <<>> /\ \A i \in 1..Len(body) : body[i] \in Digit
       THEN [ok |-> TRUE,
             val |-> IF signed /\ s[1] = "-" THEN 0 - DigitsValue(body)
                     ELSE DigitsValue(body)]
       ELSE [ok |-> FALSE, val |-> 0]

(***************************************************************************)
(* PolygonCryptoHistoricalQueryParams                                      *)
(***************************************************************************)
\* the table with "m" read as month
intervals_minute_as_month ==
    [s |-> "second", m |-> "month", h |-> "hour", d |-> "day",
     W |-> "week", M |-> "month", Q |-> "quarter", Y |-> "year"]

\* lines 57-66
intervals ==
    [s |-> "second", m |-> "minute", h |-> "hour", d |-> "day",
     W |-> "week", M |-> "month", Q |-> "quarter", Y |-> "year"]

\* get_api_interval_params: the model validator that runs after the fields
\* validated.  int() raising ValueError becomes pydantic's ValidationError; a
\* unit letter missing from the table raises KeyError.  The private
\* attributes are assigned without validation, so any integer is kept.
get_api_interval_params(interval) ==
    LET n == int(SubSeq(interval, 1, Len(interval) - 1))
    IN IF ~n.ok
       THEN [err |-> "ValidationError", _multiplier |-> None,
             _timespan |-> None]
       ELSE IF interval[Len(interval)] \notin DOMAIN intervals
            THEN [err |-> "KeyError", _multiplier |-> Some(n.val),
                  _timespan |-> None]
            ELSE [err |-> "none", _multiplier |-> Some(n.val),
                  _timespan |-> Some(intervals[interval[Len(interval)]])]

\* symbol: str, required; validated "before" by upper_symbol
upper_symbol(v) == upper(v)

\* limit: PositiveInt with a default
limit_valid(limit) == limit > 0

\* sort: Literal["asc", "desc"]
sort_valid(sort) == sort \in {"asc", "desc"}

\* a constructor that would hand out the object the model validator left
\* half-assigned: _multiplier set, _timespan still its default
QueryParams_exposes_partial(p) ==
    LET interval == IF IsSome(p.interval) THEN Get(p.interval)
                    ELSE <<"1", "d">>
        derived == get_api_interval_params(interval)
    IN [err |-> IF IsSome(p.symbol) THEN derived.err ELSE "ValidationError",
        query |-> IF IsSome(p.symbol) /\ IsSome(derived._multiplier)
                  THEN Some([symbol |-> upper_symbol(Get(p.symbol)),
                             interval |-> interval,
                             start_date |-> p.start_date,
                             end_date |-> p.end_date,
                             sort |-> "desc", limit |-> DefaultLimit,
                             _multiplier |-> Get(derived._multiplier),
                             _timespan |-> IF IsSome(derived._timespan)
                                           THEN Get(derived._timespan)
                                           ELSE "None"])
                  ELSE None]

\* The field validation of the query model: every field is validated, and
\* the model validator runs only when all of them passed.
QueryParams(p) ==
    LET fields_ok ==
            /\ IsSome(p.symbol)
            /\ IsSome(p.limit) => limit_valid(Get(p.limit))
            /\ IsSome(p.sort) => sort_valid(Get(p.sort))
        interval == IF IsSome(p.interval) THEN Get(p.interval)
                    ELSE <<"1", "d">>
        derived == get_api_interval_params(interval)
    IN IF ~fields_ok THEN [err |-> "ValidationError", query |-> None]
       ELSE IF derived.err # "none" THEN [err |-> derived.err, query |-> None]
       ELSE [err |-> "none",
             query |-> Some([symbol |-> upper_symbol(Get(p.symbol)),
                             interval |-> interval,
                             start_date |-> p.start_date,
                             end_date |-> p.end_date,
                             sort |-> IF IsSome(p.sort) THEN Get(p.sort)
                                      ELSE "desc",
                             limit |-> IF IsSome(p.limit) THEN Get(p.limit)
                                       ELSE DefaultLimit,
                             _multiplier |-> Get(derived._multiplier),
                             _timespan |-> Get(derived._timespan)])]

(***************************************************************************)
(* Calendar dates are records [y, m, d].                                   *)
(***************************************************************************)
IsLeap(y) == (y % 4 = 0 /\ y % 100 # 0) \/ y % 400 = 0

DaysInMonth(y, m) ==
    IF m = 2 THEN (IF IsLeap(y) THEN 29 ELSE 28)
    ELSE IF m \in {4, 6, 9, 11} THEN 30 ELSE 31

\* the year replaced and the day kept, whatever the month holds
minus_one_year_unclipped(dt) == [y |-> dt.y - 1, m |-> dt.m, d |-> dt.d]

\* date - relativedelta(years=1): the same month and day one year earlier,
\* the day clipped to the length of that month
minus_one_year(dt) ==
    [y |-> dt.y - 1, m |-> dt.m,
     d |-> IF dt.d > DaysInMonth(dt.y - 1, dt.m)
           THEN DaysInMonth(dt.y - 1, dt.m) ELSE dt.d]

DateLess(a, b) ==
    \/ a.y < b.y
    \/ a.y = b.y /\ a.m < b.m
    \/ a.y = b.y /\ a.m = b.m /\ a.d < b.d

\* the end of the window always set to now
transformed_params_resets_end(p, now) ==
    LET p1 == IF p.start_date = None
              THEN [p EXCEPT !.start_date = Some(minus_one_year(now))] ELSE p
        p2 == [p1 EXCEPT !.end_date = Some(now)]
    IN IF IsSome(p.symbol) /\ Get(p.symbol) # <<>>
       THEN [p2 EXCEPT
                !.symbol = Some(replace(Get(p.symbol), <<"-">>, <<>>))]
       ELSE p2

\* transform_query fills the caller's dict in place (transformed_params is
\* params) and returns the dict it hands to the query model
transformed_params(p, now) ==
    LET p1 == IF p.start_date = None
              THEN [p EXCEPT !.start_date = Some(minus_one_year(now))] ELSE p
        p2 == IF p.end_date = None
              THEN [p1 EXCEPT !.end_date = Some(now)] ELSE p1
    IN IF IsSome(p.symbol) /\ Get(p.symbol) # <<>>
       THEN [p2 EXCEPT
                !.symbol = Some(replace(Get(p.symbol), <<"-">>, <<>>))]
       ELSE p2

(***************************************************************************)
(* Timestamps.  A datetime is [day, hour, minute, second] in UTC, day      *)
(* counted from 1970-01-01.                                                *)
(***************************************************************************)
\* datetime.fromtimestamp(t / 1000, tz=timezone("UTC"))
fromtimestamp(ms) ==
    LET secs == ms \div MsPerSecond
    IN [day    |-> secs \div (24 * 60 * 60),
        hour   |-> (secs % (24 * 60 * 60)) \div (60 * 60),
        minute |-> (secs % (60 * 60)) \div 60,
        second |-> secs % 60]

\* the list without "hour"
intraday_without_hour == {"second", "minute"}

\* line 154: the units whose rows keep the time of day
intraday == {"second", "minute", "hour"}

\* lines 153-157: .date() for the calendar units, otherwise
\* strftime("%Y-%m-%dT%H:%M:%S%z"), whose %z of a UTC instant is "+0000"
convert_t(ms, timespan) ==
    LET dt == fromtimestamp(ms)
    IN IF timespan \notin intraday
       THEN [kind |-> "date", day |-> dt.day]
       ELSE [kind |-> "text", day |-> dt.day, hour |-> dt.hour,
             minute |-> dt.minute, second |-> dt.second, offset |-> "+0000"]

(***************************************************************************)
(* Stage 2: aextract_data.  One task per url; a task is the request        *)
(* amake_requests makes for the url followed by the callback on its        *)
(* response.                                                               *)
(***************************************************************************)
\* line 125
api_key(creds) ==
    IF creds = None THEN ""
    ELSE IF Get(creds).polygon_api_key = None THEN "None"
    ELSE Get(Get(creds).polygon_api_key)

\* lines 127-135: one url per piece of the comma-separated symbol; the
\* ticker is path segment 4 of the url
urls(q, creds) ==
    LET symbols == split(q.symbol, ",")
    IN [i \in 1..Len(symbols) |->
            [ticker |-> <<"X", ":">> \o upper(symbols[i]),
             multiplier |-> q._multiplier, timespan |-> q._timespan,
             start_date |-> q.start_date, end_date |-> q.end_date,
             sort |-> q.sort, limit |-> q.limit, apiKey |-> api_key(creds)]]

NewTask(url) ==
    [url |-> url, pc |-> "created", symbol |-> None, next_url |-> None,
     results |-> <<>>, returned |-> <<>>,
     requests |-> 0, responses |-> 0, errors |-> 0, inflight |-> 0,
     served |-> <<>>]

\* one row tagged with the url segment as it is, "X:" included
convert_row_keep_prefix(r, q, symbol) ==
    [t |-> convert_t(r.t, q._timespan), c |-> r.c,
     symbol |-> IF contains(q.symbol, ",") THEN Some(symbol) ELSE None]

\* lines 152-159 for one row
convert_row(r, q, symbol) ==
    [t |-> convert_t(r.t, q._timespan), c |-> r.c,
     symbol |-> IF contains(q.symbol, ",")
                THEN Some(replace(symbol, <<"X", ":">>, <<>>)) ELSE None]

\* lines 152-164: the rows are converted, and the task returns them
finish(tk, q) ==
    [tk EXCEPT !.pc = "done",
               !.returned = [k \in 1..Len(tk.results) |->
                                convert_row(tk.results[k], q, Get(tk.symbol))]]

\* the request for next_url sent together with a speculative one
get_json_prefetch(tk) ==
    [tk EXCEPT !.pc = "await_page", !.requests = @ + 2, !.inflight = @ + 2]

\* line 148: the follow-up request for next_url is sent and awaited
get_json(tk) ==
    [tk EXCEPT !.pc = "await_page", !.requests = @ + 1, !.inflight = @ + 1]

\* a loop that gives up after MaxPages responses
while_next_url_capped(tk, q) ==
    IF IsSome(tk.next_url) /\ tk.responses < MaxPages
    THEN get_json(tk) ELSE finish(tk, q)

\* line 146: the loop test, run after every response
while_next_url(tk, q) ==
    IF IsSome(tk.next_url) THEN get_json(tk) ELSE finish(tk, q)

\* the page put in front of the rows gathered so far
extend_prepends(results, rows) == rows \o results

\* line 149
extend(results, rows) == results \o rows

\* a callback that converts the first page as soon as it has arrived
callback_first_converts_early(tk, resp, q) ==
    LET first == [tk EXCEPT !.symbol = Some(tk.url.ticker),
                            !.next_url = resp.next_url,
                            !.results = resp.results,
                            !.responses = @ + 1, !.inflight = @ - 1,
                            !.served = @ \o resp.results]
    IN IF IsSome(first.next_url)
       THEN [get_json(first) EXCEPT !.returned = finish(first, q).returned]
       ELSE finish(first, q)

\* lines 140-144: the callback starts on the first response
callback_first(tk, resp, q) ==
    while_next_url([tk EXCEPT !.symbol = Some(tk.url.ticker),
                              !.next_url = resp.next_url,
                              !.results = resp.results,
                              !.responses = @ + 1, !.inflight = @ - 1,
                              !.served = @ \o resp.results], q)

\* lines 148-150: a follow-up page arrives
callback_page(tk, resp, q) ==
    while_next_url([tk EXCEPT !.next_url = resp.next_url,
                              !.results = extend(@, resp.results),
                              !.responses = @ + 1, !.inflight = @ - 1,
                              !.served = @ \o resp.results], q)

\* a callback that would catch the exception and return the rows it has
raise_returns_partial(tk, q) ==
    [finish([tk EXCEPT !.symbol = Some(tk.url.ticker)], q)
        EXCEPT !.errors = @ + 1, !.inflight = @ - 1]

\* the request or the decoding of its body raises: the callback has no
\* handler, so the exception leaves the task and its rows are dropped
raise(tk, q) ==
    [tk EXCEPT !.pc = "raised", !.errors = @ + 1, !.inflight = @ - 1]

\* a callback without the warning
no_data_warning_never(i, tk) == {}

\* lines 161-162
no_data_warning(i, tk) ==
    IF tk.pc = "done" /\ tk.results = <<>>
    THEN {[task |-> i, kind |-> "no_data",
           symbol |-> replace(Get(tk.symbol), <<"X", ":">>, <<>>)]}
    ELSE {}

(***************************************************************************)
(* The vendor.  feed is the series it serves: row i of page p is           *)
(* feed[(((p - 1) * MaxRows + i - 1) % Len(feed)) + 1].  A row is the bar  *)
(* [t, c]: its epoch in milliseconds and its close, None when the vendor   *)
(* left the key out.                                                       *)
(***************************************************************************)
Bar(ms) == [t |-> ms, c |-> Some(1)]

BarWithoutClose(ms) == [t |-> ms, c |-> None]

Row(p, i) == feed[(((p - 1) * MaxRows + i - 1) % Len(feed)) + 1]

Page(p, n, more, tk) ==
    [results |-> [i \in 1..n |-> Row(p, i)],
     next_url |-> IF more
                  THEN Some([ticker |-> tk.url.ticker, cursor |-> p + 1])
                  ELSE None]

\* the pages the vendor may answer the task's outstanding request with.
\* A paged vendor sends any number of rows and a continuation token while
\* pages remain; a looping vendor sends its first row and a token that
\* leads to the same page, every time
Responses(tk) ==
    IF vendor = "looping"
    THEN {[results |-> <<Row(1, 1)>>,
           next_url |-> Some([ticker |-> tk.url.ticker, cursor |-> 1])]}
    ELSE {Page(tk.responses + 1, n, more, tk) :
            n \in 0..MaxRows,
            more \in {b \in BOOLEAN : b => tk.responses + 1 < MaxPages}}

\* the model follows a task for MaxRequests responses
Followed(tk) == tk.responses < MaxRequests

Running == pc = "amake_requests"

\* aextract_data builds the urls and hands them to amake_requests
StartExtract ==
    /\ pc = "aextract_data"
    /\ LET us == urls(Get(query), credentials)
       IN tasks' = [i \in 1..Len(us) |-> NewTask(us[i])]
    /\ pc' = "amake_requests"
    /\ UNCHANGED <<given, params, clock, credentials, query, err, order,
                   warnings, data, output, feed,
                   vendor>>

\* the request for a url is sent
SendRequest(i) ==
    /\ Running
    /\ tasks[i].pc = "created"
    /\ tasks' = [tasks EXCEPT ![i] = [@ EXCEPT !.pc = "await_response",
                                               !.requests = @ + 1,
                                               !.inflight = @ + 1]]
    /\ UNCHANGED <<given, params, clock, credentials, query, pc, err, order,
                   warnings, data, output, feed,
                   vendor>>

Completed(old, new, i) ==
    IF new.pc \in {"done", "raised"} THEN Append(old, i) ELSE old

\* the first response arrives and the callback runs to its next await
ReceiveFirst(i) ==
    /\ Running
    /\ tasks[i].pc = "await_response"
    /\ \E resp \in Responses(tasks[i]) :
          LET tk == callback_first(tasks[i], resp, Get(query))
          IN /\ tasks' = [tasks EXCEPT ![i] = tk]
             /\ warnings' = warnings \cup no_data_warning(i, tk)
             /\ order' = Completed(order, tk, i)
    /\ UNCHANGED <<given, params, clock, credentials, query, pc, err, data,
                   output, feed,
                   vendor>>

\* a follow-up page arrives and the loop runs to its next await
ReceivePage(i) ==
    /\ Running
    /\ tasks[i].pc = "await_page"
    /\ Followed(tasks[i])
    /\ \E resp \in Responses(tasks[i]) :
          LET tk == callback_page(tasks[i], resp, Get(query))
          IN /\ tasks' = [tasks EXCEPT ![i] = tk]
             /\ warnings' = warnings \cup no_data_warning(i, tk)
             /\ order' = Completed(order, tk, i)
    /\ UNCHANGED <<given, params, clock, credentials, query, pc, err, data,
                   output, feed,
                   vendor>>

\* amake_requests on a task that raised: the failure stays with the task,
\* which contributes no rows, and a warning is emitted
task_failure_warning(i, tk) ==
    {[task |-> i, kind |-> "error",
      symbol |-> replace(tk.url.ticker, <<"X", ":">>, <<>>)]}

\* the outstanding request of a task fails (network or vendor error)
RequestFails(i) ==
    /\ Running
    /\ tasks[i].pc \in {"await_response", "await_page"}
    /\ Followed(tasks[i])
    /\ LET tk == raise(tasks[i], Get(query))
       IN /\ tasks' = [tasks EXCEPT ![i] = tk]
          /\ warnings' = warnings \cup task_failure_warning(i, tk)
          /\ order' = Completed(order, tk, i)
    /\ UNCHANGED <<given, params, clock, credentials, query, pc, err, data,
                   output, feed,
                   vendor>>

RECURSIVE Concat(_)
Concat(ss) == IF ss = <<>> THEN <<>> ELSE Head(ss) \o Concat(Tail(ss))

\* what a finished task hands to amake_requests
task_result(tk) == IF tk.pc = "done" THEN tk.returned ELSE <<>>

\* amake_requests returns the rows of every task, in completion order
amake_requests(ts, completed) ==
    Concat([k \in 1..Len(completed) |-> task_result(ts[completed[k]])])

Gather ==
    /\ Running
    /\ \A i \in 1..Len(tasks) : tasks[i].pc \in {"done", "raised"}
    /\ data' = amake_requests(tasks, order)
    /\ pc' = "transform_data"
    /\ UNCHANGED <<given, params, clock, credentials, query, err, tasks,
                   order, warnings, output, feed,
                   vendor>>

(***************************************************************************)
(* Stage 3: transform_data                                                 *)
(***************************************************************************)
\* EquityHistoricalData.date_validate on str(v): a date, or a datetime whose
\* hour and minute are both 0, becomes a date
date_validate(v) ==
    IF v.kind = "date" THEN [kind |-> "date", day |-> v.day]
    ELSE IF v.hour = 0 /\ v.minute = 0 THEN [kind |-> "date", day |-> v.day]
    ELSE [kind |-> "datetime", day |-> v.day, hour |-> v.hour,
          minute |-> v.minute, second |-> v.second, tz |-> "UTC"]

\* close is a required float, read from the key "c"
close_valid(d) == IsSome(d.c)

\* the record of a row that validates
model_validate(d) ==
    [date |-> date_validate(d.t), close |-> Get(d.c), symbol |-> d.symbol]

\* the emptiness test the wrong way round
transform_data_inverted(rows) ==
    IF rows # <<>> THEN [err |-> "EmptyDataError", output |-> <<>>]
    ELSE [err |-> "none", output |-> <<>>]

\* a transform that would drop the rows that do not validate and raise
\* EmptyDataError when none is left
transform_data_drops_invalid(rows) ==
    LET kept == SelectSeq(rows, close_valid)
    IN IF kept = <<>> THEN [err |-> "EmptyDataError", output |-> <<>>]
       ELSE [err |-> "none",
             output |-> [k \in 1..Len(kept) |-> model_validate(kept[k])]]

\* lines 173-175: a row that does not validate raises ValidationError out
\* of the list comprehension
transform_data(rows) ==
    IF rows = <<>> THEN [err |-> "EmptyDataError", output |-> <<>>]
    ELSE IF \E k \in 1..Len(rows) : ~close_valid(rows[k])
         THEN [err |-> "ValidationError", output |-> <<>>]
         ELSE [err |-> "none",
               output |-> [k \in 1..Len(rows) |-> model_validate(rows[k])]]

TransformData ==
    /\ pc = "transform_data"
    /\ LET r == transform_data(data)
       IN /\ err' = r.err
          /\ output' = r.output
          /\ pc' = IF r.err = "none" THEN "done" ELSE "failed"
    /\ UNCHANGED <<given, params, clock, credentials, query, tasks, order,
                   warnings, data, feed,
                   vendor>>

(***************************************************************************)
(* Stage 1: transform_query                                                *)
(***************************************************************************)
\* a pipeline that goes on to extraction whatever transform_query did
transform_query_outcome_ignores_error(e) == "aextract_data"

\* line 116: the constructor raising leaves transform_query without a query,
\* and the pipeline with it
transform_query_outcome(e) ==
    IF e = "none" THEN "aextract_data" ELSE "failed"

TransformQuery ==
    /\ pc = "transform_query"
    /\ LET tp == transformed_params(params, clock)
           r  == QueryParams(tp)
       IN /\ params' = tp
          /\ query' = r.query
          /\ err' = r.err
          /\ pc' = transform_query_outcome(r.err)
    /\ UNCHANGED <<given, clock, credentials, tasks, order, warnings, data,
                   output, feed,
                   vendor>>

(***************************************************************************)
(* Inputs                                                                  *)
(***************************************************************************)
IntervalAlphabet ==
    Digit \cup {"-", "x", "s", "m", "h", "d", "W", "M", "Q", "Y"}

Tokens == UNION {[1..n -> IntervalAlphabet] : n \in 0..MaxTokenLen}

Dates == {[y |-> 2023, m |-> 2, d |-> 28], [y |-> 2024, m |-> 2, d |-> 29],
          [y |-> 2024, m |-> 3, d |-> 1]}

Credentials ==
    {None, Some([polygon_api_key |-> None]),
     Some([polygon_api_key |-> Some("key")])}

NoExtraction ==
    /\ feed = <<Bar(0)>>
    /\ vendor = "paged"
    /\ tasks = <<>>
    /\ order = <<>>
    /\ warnings = {}
    /\ data = <<>>
    /\ output = <<>>

\* every interval token, the other fields left to their defaults
InitInterval ==
    /\ params \in [symbol : {Some(<<"B">>)},
                   interval : {None} \cup {Some(t) : t \in Tokens},
                   start_date : {None}, end_date : {None},
                   sort : {None}, limit : {None}]
    /\ clock = [y |-> 2024, m |-> 3, d |-> 1]
    /\ credentials = Some([polygon_api_key |-> Some("key")])
    /\ given = params
    /\ query = None
    /\ pc = "transform_query"
    /\ err = "none"
    /\ NoExtraction

SpecInterval == InitInterval /\ [][TransformQuery]_vars

\* every combination of the other fields, the interval valid
InitQuery ==
    /\ params \in [symbol : {None, Some(<<>>), Some(<<"B">>),
                             Some(<<"b", "-", "e">>),
                             Some(<<"B", ",", "e", "-">>)},
                   interval : {None, Some(<<"5", "m">>)},
                   start_date : {None} \cup {Some(d) : d \in Dates},
                   end_date : {None} \cup {Some(d) : d \in Dates},
                   sort : {None, Some("asc"), Some("desc"), Some("up")},
                   limit : {None, Some(-1), Some(0), Some(1), Some(2)}]
    /\ clock \in {[y |-> 2024, m |-> 2, d |-> 29],
                  [y |-> 2024, m |-> 3, d |-> 1]}
    /\ credentials = Some([polygon_api_key |-> Some("key")])
    /\ given = params
    /\ query = None
    /\ pc = "transform_query"
    /\ err = "none"
    /\ NoExtraction

SpecQuery == InitQuery /\ [][TransformQuery]_vars

(***************************************************************************)
(* The pipeline: transform_query, aextract_data, transform_data, once per  *)
(* request.                                                                *)
(***************************************************************************)
Init ==
    /\ params \in [symbol : {Some(<<"b", "-", "e">>), Some(<<"B", ",", "e">>),
                             Some(<<"E", ",", "E">>)},
                   interval : {None, Some(<<"1", "h">>), Some(<<"7", "x">>),
                               Some(<<"d">>)},
                   start_date : {None}, end_date : {None},
                   sort : {None}, limit : {None, Some(0)}]
    /\ clock = [y |-> 2024, m |-> 3, d |-> 1]
    /\ credentials \in Credentials
    /\ feed = <<Bar(86400000), Bar(172801000), Bar(90000000)>>
    /\ vendor = "paged"
    /\ given = params
    /\ query = None
    /\ pc = "transform_query"
    /\ err = "none"
    /\ tasks = <<>>
    /\ order = <<>>
    /\ warnings = {}
    /\ data = <<>>
    /\ output = <<>>

Next ==
    \/ TransformQuery
    \/ StartExtract
    \/ \E i \in 1..Len(tasks) : SendRequest(i)
    \/ \E i \in 1..Len(tasks) : ReceiveFirst(i)
    \/ \E i \in 1..Len(tasks) : ReceivePage(i)
    \/ \E i \in 1..Len(tasks) : RequestFails(i)
    \/ Gather
    \/ TransformData

Spec == Init /\ [][Next]_vars

DigitChar(v) ==
    CASE v = 0 -> "0" [] v = 1 -> "1" [] v = 2 -> "2" [] v = 3 -> "3"
      [] v = 4 -> "4" [] v = 5 -> "5" [] v = 6 -> "6" [] v = 7 -> "7"
      [] v = 8 -> "8" [] v = 9 -> "9"

RECURSIVE Decimal(_)
Decimal(n) ==
    IF n < 10 THEN <<DigitChar(n)>>
    ELSE Decimal(n \div 10) \o <<DigitChar(n % 10)>>

RECURSIVE Power10(_)
Power10(k) == IF k = 0 THEN 1 ELSE 10 * Power10(k - 1)

UnitLetters == {"s", "m", "h", "d", "W", "M", "Q", "Y"}

UnitName(u) ==
    CASE u = "s" -> "second" [] u = "m" -> "minute" [] u = "h" -> "hour"
      [] u = "d" -> "day" [] u = "W" -> "week" [] u = "M" -> "month"
      [] u = "Q" -> "quarter" [] u = "Y" -> "year"

Zeros(k) == [i \in 1..k |-> "0"]

Normalised == pc # "transform_query"

GivenInterval ==
    IF IsSome(given.interval) THEN Get(given.interval) ELSE <<"1", "d">>

\* one symbol, every unit, a series that repeats one instant
Epochs == {0, 1500, 86400000, 86399000, 90061000, 172800000, -1000}

InitTime ==
    /\ params \in [symbol : {Some(<<"B">>)},
                   interval : {Some(<<"1", u>>) : u \in UnitLetters},
                   start_date : {None}, end_date : {None},
                   sort : {None}, limit : {None}]
    /\ clock = [y |-> 2024, m |-> 3, d |-> 1]
    /\ credentials = Some([polygon_api_key |-> Some("key")])
    /\ feed \in {<<Bar(e)>> : e \in Epochs}
    /\ vendor = "paged"
    /\ given = params
    /\ query = None
    /\ pc = "transform_query"
    /\ err = "none"
    /\ tasks = <<>>
    /\ order = <<>>
    /\ warnings = {}
    /\ data = <<>>
    /\ output = <<>>

SpecTime == InitTime /\ [][Next]_vars

\* every symbol of up to MaxSymbolLen characters, the other fields left out
SymbolAlphabet == {"b", "E", "-", ","}

Symbols ==
    UNION {[1..n -> SymbolAlphabet] : n \in 0..MaxSymbolLen}

InitSymbol ==
    /\ params \in [symbol : {Some(s) : s \in Symbols},
                   interval : {None},
                   start_date : {None}, end_date : {None},
                   sort : {None}, limit : {None}]
    /\ clock = [y |-> 2024, m |-> 3, d |-> 1]
    /\ credentials = Some([polygon_api_key |-> Some("key")])
    /\ given = params
    /\ query = None
    /\ pc = "transform_query"
    /\ err = "none"
    /\ NoExtraction

SpecSymbol == InitSymbol /\ [][TransformQuery]_vars

\* one or two symbols against a vendor that pages or loops; every step that
\* can be taken is taken in the end: the event loop runs what is ready, and
\* an outstanding request is answered or fails
InitLoop ==
    /\ params \in [symbol : {Some(<<"B">>), Some(<<"B", ",", "e">>)},
                   interval : {None},
                   start_date : {None}, end_date : {None},
                   sort : {None}, limit : {None}]
    /\ clock = [y |-> 2024, m |-> 3, d |-> 1]
    /\ credentials = Some([polygon_api_key |-> Some("key")])
    /\ feed = <<Bar(86400000)>>
    /\ vendor \in {"paged", "looping"}
    /\ given = params
    /\ query = None
    /\ pc = "transform_query"
    /\ err = "none"
    /\ tasks = <<>>
    /\ order = <<>>
    /\ warnings = {}
    /\ data = <<>>
    /\ output = <<>>

Scheduling ==
    /\ WF_vars(TransformQuery)
    /\ WF_vars(StartExtract)
    /\ \A i \in 1..2 :
          /\ WF_vars(i \in DOMAIN tasks /\ SendRequest(i))
          /\ WF_vars(/\ i \in DOMAIN tasks
                     /\ \/ ReceiveFirst(i)
                        \/ ReceivePage(i)
                        \/ RequestFails(i))
    /\ WF_vars(Gather)
    /\ WF_vars(TransformData)

SpecLoop == InitLoop /\ [][Next]_vars /\ Scheduling

\* one symbol, series of one or two bars some of which lack their close
DataEpochs == {86400000, 86401000, 86460000, 90000000}

DataBars ==
    {Bar(e) : e \in DataEpochs} \cup {BarWithoutClose(e) : e \in DataEpochs}

InitData ==
    /\ params \in [symbol : {Some(<<"B">>)},
                   interval : {None, Some(<<"1", "h">>)},
                   start_date : {None}, end_date : {None},
                   sort : {None}, limit : {None}]
    /\ clock = [y |-> 2024, m |-> 3, d |-> 1]
    /\ credentials = Some([polygon_api_key |-> Some("key")])
    /\ feed \in {<<a>> : a \in DataBars}
                \cup {<<a, b>> : a \in DataBars, b \in DataBars}
    /\ vendor = "paged"
    /\ given = params
    /\ query = None
    /\ pc = "transform_query"
    /\ err = "none"
    /\ tasks = <<>>
    /\ order = <<>>
    /\ warnings = {}
    /\ data = <<>>
    /\ output = <<>>

SpecData == InitData /\ [][Next]_vars

(***************************************************************************)
(* What the claims are stated over.                                        *)
(***************************************************************************)
\* the symbols a caller's symbol string asks for, as the vendor names them
Requested ==
    CASE given.symbol = Some(<<"b", "-", "e">>) -> << <<"B", "E">> >>
      [] given.symbol = Some(<<"B", ",", "e">>) -> << <<"B">>, <<"E">> >>
      [] given.symbol = Some(<<"E", ",", "E">>) -> << <<"E">>, <<"E">> >>
      [] given.symbol = Some(<<"B">>) -> << <<"B">> >>

Extracted == pc \in {"transform_data", "done", "failed"}

Ended == pc \in {"done", "failed"} /\ tasks # <<>>

TaskIds == 1..Len(tasks)

RECURSIVE RowsOfDone(_)
RowsOfDone(n) ==
    IF n = 0 THEN 0
    ELSE RowsOfDone(n - 1)
            + (IF tasks[n].pc = "done" THEN Len(tasks[n].served) ELSE 0)

\* the rows task i returned are a block of consecutive rows of data
BlockOfData(i) ==
    \E off \in 0..(Len(data) - Len(tasks[i].returned)) :
        SubSeq(data, off + 1, off + Len(tasks[i].returned)) = tasks[i].returned

WarnedNoData(i) ==
    [task |-> i, kind |-> "no_data", symbol |-> Requested[i]] \in warnings

(***************************************************************************)
(* C1: a symbol task that was served N pages, all but the last carrying a  *)
(* continuation token, has issued exactly N requests and returns the rows  *)
(* of the N pages in page order, none lost and none twice; for a           *)
(* single-symbol query they are what extraction returns.                   *)
(***************************************************************************)
C1_PaginationComplete ==
    \A i \in TaskIds :
        tasks[i].pc = "done"
        => /\ tasks[i].requests = tasks[i].responses
           /\ Len(tasks[i].returned) = Len(tasks[i].served)
           /\ \A k \in 1..Len(tasks[i].served) :
                 tasks[i].returned[k].t
                    = convert_t(tasks[i].served[k].t, Get(query)._timespan)
           /\ (Extracted /\ Len(tasks) = 1) => data = tasks[i].returned

C1_Witness ==
    /\ Extracted
    /\ Len(tasks) = 1
    /\ tasks[1].pc = "done"
    /\ tasks[1].responses = MaxPages
    /\ Len(tasks[1].returned) = MaxPages * MaxRows
    /\ tasks[1].returned[1] # tasks[1].returned[MaxRows + 1]

(***************************************************************************)
(* C2: when every requested symbol's result set is empty, a no-data        *)
(* warning has been emitted for each requested symbol by the time          *)
(* extraction returns, and the pipeline then ends with EmptyDataError.     *)
(***************************************************************************)
AllEmpty ==
    /\ tasks # <<>>
    /\ \A i \in TaskIds : tasks[i].pc = "done" /\ tasks[i].served = <<>>

C2_AllEmptyEndsInError ==
    (AllEmpty /\ Extracted)
    => /\ \A i \in TaskIds : WarnedNoData(i)
       /\ pc # "done"
       /\ pc = "failed" => err = "EmptyDataError"

C2_Witness ==
    /\ AllEmpty
    /\ Len(tasks) = 2
    /\ pc = "failed"
    /\ err = "EmptyDataError"
    /\ Cardinality(warnings) = 2

(***************************************************************************)
(* C3: in a multi-symbol query the pipeline raises EmptyDataError only     *)
(* when no symbol returned a row; when some symbol did, its rows are       *)
(* returned, and a symbol whose pages held no row has only produced a      *)
(* warning naming it.                                                      *)
(***************************************************************************)
C3_PartialDataIsReturned ==
    (Ended /\ Len(tasks) > 1)
    => /\ (\E i \in TaskIds : tasks[i].pc = "done" /\ tasks[i].served # <<>>)
            => /\ pc = "done"
               /\ err = "none"
               /\ Len(output) = RowsOfDone(Len(tasks))
               /\ \A i \in TaskIds : tasks[i].pc = "done" => BlockOfData(i)
       /\ err = "EmptyDataError"
            => \A i \in TaskIds :
                  tasks[i].pc = "raised" \/ tasks[i].served = <<>>
       /\ \A i \in TaskIds :
             (tasks[i].pc = "done" /\ tasks[i].served = <<>>) => WarnedNoData(i)

C3_Witness ==
    /\ pc = "done"
    /\ Len(tasks) = 2
    /\ order = <<1, 2>>
    /\ tasks[1].pc = "done" /\ tasks[1].served = <<>>
    /\ WarnedNoData(1)
    /\ tasks[2].pc = "done" /\ tasks[2].responses = MaxPages
    /\ Len(output) = Len(tasks[2].served)
    /\ output # <<>>

(***************************************************************************)
(* C4: a task one of whose requests failed, the first or a follow-up,      *)
(* contributes no row and has a warning; the other tasks complete and      *)
(* their rows are returned.                                                *)
(***************************************************************************)
C4_TaskErrorIsLocal ==
    Extracted
    => /\ Len(data) = RowsOfDone(Len(tasks))
       /\ \A i \in TaskIds :
             /\ tasks[i].pc \in {"done", "raised"}
             /\ tasks[i].errors > 0
                   => /\ tasks[i].pc = "raised"
                      /\ \E w \in warnings : w.task = i /\ w.kind = "error"
             /\ tasks[i].errors = 0
                   => /\ tasks[i].pc = "done"
                      /\ tasks[i].requests = tasks[i].responses
                      /\ BlockOfData(i)

C4_Witness ==
    /\ pc = "done"
    /\ Len(tasks) = 2
    /\ tasks[1].pc = "raised" /\ tasks[1].responses = 1
    /\ tasks[1].served # <<>>
    /\ tasks[2].pc = "done" /\ tasks[2].responses = MaxPages
    /\ order = <<1, 2>>
    /\ data = tasks[2].returned
    /\ data # <<>>

(***************************************************************************)
(* C5: in a multi-symbol query every returned row, of the first page or a  *)
(* later one, is tagged with the symbol of the task that fetched it,       *)
(* without the "X:" prefix, whatever the interleaving; in a single-symbol  *)
(* query no row is tagged.                                                 *)
(***************************************************************************)
C5_RowsTaggedWithOwnSymbol ==
    /\ \A i \in TaskIds : \A k \in 1..Len(tasks[i].returned) :
          tasks[i].returned[k].symbol
             = IF Len(Requested) > 1 THEN Some(Requested[i]) ELSE None
    /\ Extracted
          => /\ \A i \in TaskIds : tasks[i].pc = "done" => BlockOfData(i)
             /\ Len(data) = RowsOfDone(Len(tasks))

C5_Witness ==
    /\ Extracted
    /\ Len(tasks) = 2
    /\ order = <<2, 1>>
    /\ tasks[1].responses = MaxPages /\ tasks[2].responses = MaxPages
    /\ Len(data) = 2 * MaxPages * MaxRows
    /\ data[1].symbol = Some(<<"E">>)
    /\ data[Len(data)].symbol = Some(<<"B">>)

(***************************************************************************)
(* C6: a symbol task never has more than one request in flight: every      *)
(* request but the one outstanding has been answered before the next is    *)
(* issued.                                                                 *)
(***************************************************************************)
C6_OneRequestInFlight ==
    \A i \in TaskIds :
        /\ tasks[i].inflight \in {0, 1}
        /\ tasks[i].requests
              = tasks[i].responses + tasks[i].errors + tasks[i].inflight
        /\ tasks[i].inflight = 1
              <=> tasks[i].pc \in {"await_response", "await_page"}

C6_Witness ==
    /\ Len(tasks) = 2
    /\ tasks[1].inflight = 1 /\ tasks[1].responses = 1
    /\ tasks[2].inflight = 1 /\ tasks[2].requests = 1

(***************************************************************************)
(* C7: extraction renders the epoch-millisecond t of every row as the UTC  *)
(* calendar date when the query's unit is day, week, month, quarter or     *)
(* year, and as the UTC date and time of day to the second with the offset *)
(* +0000 when the unit is second, minute or hour.                          *)
(***************************************************************************)
QueryUnit == UnitName(GivenInterval[Len(GivenInterval)])

RenderedAsDate(ms, out) ==
    /\ out.kind = "date"
    /\ out.day * 86400000 <= ms
    /\ ms < (out.day + 1) * 86400000

RenderedAsText(ms, out) ==
    /\ out.kind = "text"
    /\ out.offset = "+0000"
    /\ out.hour \in 0..23 /\ out.minute \in 0..59 /\ out.second \in 0..59
    /\ LET at == (((out.day * 24 + out.hour) * 60 + out.minute) * 60
                    + out.second) * 1000
       IN at <= ms /\ ms < at + 1000

C7_TimestampByUnit ==
    \A i \in TaskIds : \A k \in 1..Len(tasks[i].returned) :
        /\ Len(tasks[i].returned) = Len(tasks[i].served)
        /\ IF QueryUnit \in {"day", "week", "month", "quarter", "year"}
           THEN RenderedAsDate(tasks[i].served[k].t, tasks[i].returned[k].t)
           ELSE RenderedAsText(tasks[i].served[k].t, tasks[i].returned[k].t)

C7_Witness ==
    /\ QueryUnit = "hour"
    /\ feed = <<Bar(86400000)>>
    /\ pc = "done"
    /\ data # <<>>
    /\ data[1].t = [kind |-> "text", day |-> 1, hour |-> 0, minute |-> 0,
                    second |-> 0, offset |-> "+0000"]

(***************************************************************************)
(* C8: every token <n><unit>, n a positive integer written in decimal      *)
(* (leading zeros allowed) and unit one of s m h d W M Q Y, normalises to  *)
(* a query whose multiplier is n and whose timespan is the unit's name.    *)
(***************************************************************************)
C8_ValidIntervalDerives ==
    (Normalised /\ Len(GivenInterval) >= 2
        /\ GivenInterval[Len(GivenInterval)] \in UnitLetters
        /\ \A i \in 1..(Len(GivenInterval) - 1) : GivenInterval[i] \in Digit)
    => \A n \in 1..(Power10(MaxTokenLen - 1) - 1), k \in 0..(MaxTokenLen - 2) :
          GivenInterval
              = Zeros(k) \o Decimal(n) \o <<GivenInterval[Len(GivenInterval)]>>
          => /\ err = "none"
             /\ IsSome(query)
             /\ Get(query)._multiplier = n
             /\ Get(query)._timespan
                    = UnitName(GivenInterval[Len(GivenInterval)])

C8_Witness ==
    /\ Normalised
    /\ GivenInterval = <<"1", "5", "m">>
    /\ IsSome(query)
    /\ Get(query)._multiplier = 15
    /\ Get(query)._timespan = "minute"

(***************************************************************************)
(* C9: every token that is not <positive integer><unit> fails to           *)
(* normalise: an error is raised and no query is produced.                 *)
(***************************************************************************)
ValidToken(t) ==
    /\ Len(t) >= 2
    /\ t[Len(t)] \in UnitLetters
    /\ \A i \in 1..(Len(t) - 1) : t[i] \in Digit
    /\ \E i \in 1..(Len(t) - 1) : t[i] # "0"

C9_InvalidIntervalFails ==
    (Normalised /\ ~ValidToken(GivenInterval))
    => (err # "none" /\ query = None)

(***************************************************************************)
(* C10: normalisation fails, and returns no query, whenever the symbol is  *)
(* empty, limit <= 0 or start_date is later than end_date.                 *)
(***************************************************************************)
C10_InvalidFieldsFail ==
    (/\ Normalised
     /\ \/ given.symbol = Some(<<>>)
        \/ IsSome(given.limit) /\ Get(given.limit) <= 0
        \/ DateLess(Get(params.end_date), Get(params.start_date)))
    => (err # "none" /\ query = None)

(***************************************************************************)
(* C11: when normalisation fails (a malformed interval token, an invalid   *)
(* field) the pipeline stops there: no task exists and no request is ever  *)
(* issued unless transform_query returned a query.                         *)
(***************************************************************************)
NormalisationFailed == Normalised /\ query = None

C11_NoRequestWithoutQuery ==
    /\ NormalisationFailed
          => /\ pc = "failed"
             /\ err \in {"ValidationError", "KeyError"}
             /\ tasks = <<>>
             /\ data = <<>>
    /\ (\/ given.interval \in {Some(<<"7", "x">>), Some(<<"d">>)}
        \/ given.limit = Some(0))
          => tasks = <<>> /\ pc \in {"transform_query", "failed"}
    /\ \A i \in TaskIds :
          tasks[i].requests > 0 => (IsSome(query) /\ err # "KeyError")

C11_Witness ==
    /\ NormalisationFailed
    /\ given.interval = Some(<<"7", "x">>)
    /\ given.limit = None
    /\ err = "KeyError"
    /\ tasks = <<>>

(***************************************************************************)
(* C12: a query exists exactly when normalisation passed, and then both    *)
(* derived fields are set from its interval: the multiplier is the number  *)
(* its digit part writes and the timespan the name of its unit letter.  A  *)
(* token whose digit part parses but whose unit does not leaves no query.  *)
(***************************************************************************)
\* the digit part ds, an optional sign first, writes the integer m
Writes(ds, m) ==
    LET signed == ds # <<>> /\ ds[1] \in {"-", "+"}
        body   == IF signed THEN Tail(ds) ELSE ds
        abs    == IF m < 0 THEN 0 - m ELSE m
    IN /\ body # <<>>
       /\ (m < 0) => (signed /\ ds[1] = "-")
       /\ (m > 0 /\ signed) => ds[1] = "+"
       /\ \E k \in 0..(Len(body) - 1) :
             body = Zeros(k) \o Decimal(abs)

C12_DerivedFieldsTogether ==
    /\ ~Normalised => query = None
    /\ Normalised
          => /\ IsSome(query) <=> err \notin {"ValidationError", "KeyError"}
             /\ IsSome(query) <=> pc # "failed" \/ err = "EmptyDataError"
             /\ GivenInterval = <<>>
                   \/ GivenInterval[Len(GivenInterval)] \notin UnitLetters
                   => query = None
             /\ IsSome(query)
                   => /\ Get(query).interval = GivenInterval
                      /\ Get(query)._timespan
                            = UnitName(GivenInterval[Len(GivenInterval)])
                      /\ Get(query)._multiplier \in Int
                      /\ Writes(SubSeq(GivenInterval, 1,
                                       Len(GivenInterval) - 1),
                                Get(query)._multiplier)

C12_Witness ==
    /\ Normalised
    /\ GivenInterval = <<"7", "x">>
    /\ err = "KeyError"
    /\ query = None
    /\ pc = "failed"

(***************************************************************************)
(* C13: for a query given without start_date and end_date, the normalised *)
(* end_date is the current date and the normalised start_date is the same  *)
(* month and day one year earlier.  C13_DefaultWindow is the statement as  *)
(* claimed; C13_DefaultWindowClipped lets 29 February start on 28 February *)
(* of the year before.                                                     *)
(***************************************************************************)
NoDatesGiven == given.start_date = None /\ given.end_date = None

SameDayLastYear(dt) == [y |-> dt.y - 1, m |-> dt.m, d |-> dt.d]

C13_DefaultWindow ==
    (Normalised /\ NoDatesGiven /\ IsSome(query))
    => /\ Get(query).end_date = Some(clock)
       /\ Get(query).start_date
             = Some(SameDayLastYear(Get(Get(query).end_date)))

C13_DefaultWindowClipped ==
    (Normalised /\ NoDatesGiven /\ IsSome(query))
    => /\ Get(query).end_date = Some(clock)
       /\ LET end == Get(Get(query).end_date)
          IN Get(query).start_date
                = IF end.m = 2 /\ end.d = 29
                  THEN Some([y |-> end.y - 1, m |-> 2, d |-> 28])
                  ELSE Some(SameDayLastYear(end))

C13_Witness ==
    /\ Normalised
    /\ NoDatesGiven
    /\ IsSome(query)
    /\ clock = [y |-> 2024, m |-> 2, d |-> 29]
    /\ Get(query).end_date = Some([y |-> 2024, m |-> 2, d |-> 29])
    /\ Get(query).start_date = Some([y |-> 2023, m |-> 2, d |-> 28])

(***************************************************************************)
(* C14: transform_data ends in EmptyDataError when no record comes out of  *)
(* it, and never when a row was transformed.  C14_EmptyOutputIsEmptyData   *)
(* is the statement as claimed: also rows that are all rejected end in     *)
(* EmptyDataError.  C14_EmptyDataErrorIffNoRows is what holds:             *)
(* EmptyDataError exactly when extraction returned no row; a rejected row  *)
(* ends the stage in ValidationError with no record; otherwise one record  *)
(* per row.                                                                *)
(***************************************************************************)
Rejected(d) == d.c = None

C14_EmptyOutputIsEmptyData ==
    Ended
    => /\ (\A k \in 1..Len(data) : Rejected(data[k]))
             => (pc = "failed" /\ err = "EmptyDataError")
       /\ output # <<>> => err # "EmptyDataError"

C14_EmptyDataErrorIffNoRows ==
    Ended
    => /\ err = "EmptyDataError" <=> data = <<>>
       /\ (\E k \in 1..Len(data) : Rejected(data[k]))
             => (pc = "failed" /\ err = "ValidationError" /\ output = <<>>)
       /\ (data # <<>> /\ \A k \in 1..Len(data) : ~Rejected(data[k]))
             => (pc = "done" /\ err = "none" /\ Len(output) = Len(data))
       /\ output # <<>> => err # "EmptyDataError"

C14_Witness ==
    /\ Ended
    /\ Len(data) = MaxPages * MaxRows
    /\ \A k \in 1..Len(data) : Rejected(data[k])
    /\ err = "ValidationError"
    /\ output = <<>>

(***************************************************************************)
(* C15: when the API key is absent, extraction fails with                  *)
(* MissingCredentialError as it starts and no request is sent.             *)
(***************************************************************************)
KeyAbsent ==
    \/ credentials = None
    \/ Get(credentials).polygon_api_key = None

C15_MissingCredentialStops ==
    KeyAbsent
    => /\ \A i \in TaskIds : tasks[i].requests = 0
       /\ pc \notin {"amake_requests", "transform_data", "done"}
       /\ (pc = "failed" /\ IsSome(query)) => err = "MissingCredentialError"

(***************************************************************************)
(* C16: the date of a result record is a date-only value exactly when the  *)
(* bar's instant has hour, minute and second all zero in UTC; any other    *)
(* instant, one with only its seconds non-zero included, is kept as a date *)
(* and time with its timezone.                                             *)
(***************************************************************************)
ZeroTimeOfDay(ms) == (ms \div 1000) % (24 * 60 * 60) = 0

C16_DateOnlyIffMidnight ==
    (pc = "done" /\ Len(tasks) = 1)
    => /\ Len(output) = Len(tasks[1].served)
       /\ \A k \in 1..Len(output) :
            LET ms == tasks[1].served[k].t
            IN IF ZeroTimeOfDay(ms)
               THEN output[k].date.kind = "date"
               ELSE /\ output[k].date.kind = "datetime"
                    /\ output[k].date.tz = "UTC"
                    /\ output[k].date.second = (ms \div 1000) % 60

(***************************************************************************)
(* C17: normalisation removes the "-" of the symbol and fills in the dates *)
(* the caller left out, and nothing else: sort, limit and interval stay as *)
(* the caller gave them, in the caller's dict and in the query, and a date *)
(* the caller gave is kept.                                                *)
(***************************************************************************)
IsNotSeparator(c) == c # "-"

KeptWhenGiven(name) ==
    IsSome(given[name])
    => /\ params[name] = given[name]
       /\ IsSome(query) => Get(query)[name] = Get(given[name])

C17_NormalisationFrame ==
    Normalised
    => /\ params.sort = given.sort
       /\ params.limit = given.limit
       /\ params.interval = given.interval
       /\ \A name \in {"sort", "limit", "interval"} : KeptWhenGiven(name)
       /\ IsSome(given.start_date) => params.start_date = given.start_date
       /\ IsSome(given.end_date) => params.end_date = given.end_date
       /\ IsSome(query)
            => /\ Get(query).start_date = params.start_date
               /\ Get(query).end_date = params.end_date
       /\ IsSome(params.start_date) /\ IsSome(params.end_date)
       /\ IsSome(given.symbol)
            => params.symbol
                 = Some(SelectSeq(Get(given.symbol), IsNotSeparator))

C17_Witness ==
    /\ Normalised
    /\ IsSome(query)
    /\ given.symbol = Some(<<"b", "-", "e">>)
    /\ Get(query).symbol = <<"B", "E">>
    /\ given.sort = Some("asc") /\ Get(query).sort = "asc"
    /\ given.limit = Some(2) /\ Get(query).limit = 2
    /\ given.interval = Some(<<"5", "m">>)
    /\ given.start_date = None
    /\ given.end_date = Some([y |-> 2023, m |-> 2, d |-> 28])
    /\ Get(query).end_date = given.end_date

(***************************************************************************)
(* C18: normalising a symbol (the "-" removed, then upper case) is         *)
(* idempotent: a symbol already in upper case and without "-" comes back   *)
(* as it is, and normalising the symbol of the normalised query again      *)
(* gives that symbol.                                                      *)
(***************************************************************************)
AlreadyNormal(s) == \A i \in 1..Len(s) : s[i] \notin {"-", "b", "e", "x"}

\* the symbol of the query that a second call gives for the symbol s
NormalisedAgain(s) ==
    LET again == [given EXCEPT !.symbol = Some(s)]
    IN QueryParams(transformed_params(again, clock)).query

C18_SymbolIdempotent ==
    (Normalised /\ IsSome(query))
    => LET once == Get(query).symbol
       IN /\ IsSome(NormalisedAgain(once))
          /\ Get(NormalisedAgain(once)).symbol = once
          /\ AlreadyNormal(Get(given.symbol)) => once = Get(given.symbol)

C18_Witness ==
    /\ Normalised
    /\ given.symbol = Some(<<"-", "b", "-">>)
    /\ IsSome(query)
    /\ Get(query).symbol = <<"B">>

(***************************************************************************)
(* C19: the pagination loop of a task counts no pages and ends exactly     *)
(* when a response carries no continuation token.  With a token in hand    *)
(* the task has sent one more request and is not done, however many pages  *)
(* it has read; a task that is done holds no token and returns every row   *)
(* it was served.  Against a vendor that stops sending tokens every task   *)
(* ends; against a vendor that sends a token with every response no task   *)
(* is ever done and, unless a request fails, it goes on sending requests   *)
(* for as long as the model follows it.                                    *)
(***************************************************************************)
LoopEndsOnlyWithoutToken ==
    \A i \in TaskIds :
        /\ tasks[i].pc = "done"
             => /\ tasks[i].next_url = None
                /\ tasks[i].requests = tasks[i].responses
                /\ Len(tasks[i].returned) = Len(tasks[i].served)
        /\ (tasks[i].pc # "raised" /\ IsSome(tasks[i].next_url))
             => /\ tasks[i].pc = "await_page"
                /\ tasks[i].requests = tasks[i].responses + 1
        /\ vendor = "looping" => tasks[i].pc # "done"

Ends(i) == i \in TaskIds /\ tasks[i].pc \in {"done", "raised"}

StillRequesting(i) ==
    /\ i \in TaskIds
    /\ \/ tasks[i].pc = "raised"
       \/ tasks[i].pc = "await_page" /\ tasks[i].requests = MaxRequests + 1

C19_LoopEndsOnlyWithoutToken ==
    /\ []LoopEndsOnlyWithoutToken
    /\ \A i \in 1..2 :
          /\ (vendor = "paged" /\ i \in TaskIds) ~> Ends(i)
          /\ (vendor = "looping" /\ i \in TaskIds) ~> []StillRequesting(i)

C19_Witness ==
    /\ vendor = "looping"
    /\ Len(tasks) = 2
    /\ tasks[1].pc = "await_page"
    /\ tasks[1].responses = MaxRequests
    /\ tasks[1].requests = MaxRequests + 1
    /\ tasks[2].pc = "raised"

(***************************************************************************)
(* C20: a task converts its timestamps once its pagination loop has ended, *)
(* every row once.  Until the task is done its rows are the rows as served *)
(* and nothing is returned; when it is done it returns one row for every   *)
(* row served by any page, in order, whose t is the rendering of that      *)
(* row's epoch milliseconds.                                               *)
(***************************************************************************)
ConvertedOnce(ms, out) ==
    IF QueryUnit \in {"second", "minute", "hour"}
    THEN RenderedAsText(ms, out)
    ELSE RenderedAsDate(ms, out)

C20_ConvertedOnceAfterLoop ==
    \A i \in TaskIds :
        IF tasks[i].pc = "done"
        THEN /\ tasks[i].next_url = None
             /\ Len(tasks[i].returned) = Len(tasks[i].served)
             /\ \A k \in 1..Len(tasks[i].served) :
                    /\ ConvertedOnce(tasks[i].served[k].t,
                                     tasks[i].returned[k].t)
                    /\ tasks[i].returned[k].c = tasks[i].served[k].c
        ELSE /\ tasks[i].returned = <<>>
             /\ tasks[i].results = tasks[i].served

C20_Witness ==
    /\ Len(tasks) = 2
    /\ QueryUnit = "hour"
    /\ tasks[1].pc = "done"
    /\ tasks[1].responses = MaxPages
    /\ Len(tasks[1].returned) = MaxPages * MaxRows
    /\ tasks[1].returned[Len(tasks[1].returned)].t.kind = "text"
    /\ tasks[2].pc = "await_page"
    /\ Len(tasks[2].results) = MaxRows

=============================================================================
